---------------------------- MODULE Spec2Model ----------------------------
(***************************************************************************)
(* Model of sktime/networks/mlstmfcn.py: the module import, the            *)
(* MLSTMFCNNetwork constructor and build_network, which wires a recurrent  *)
(* arm and a convolutional arm into one layer graph.                       *)
(*                                                                         *)
(* Conventions.  A keyword argument is passed as a set: {} when the        *)
(* caller omits it (the default of the signature applies), {v} when the    *)
(* caller passes v.  Python sequences are TLA+ sequences read through      *)
(* Index (0-based).  The dropout rate is kept in tenths (0.8 is 8).  A     *)
(* layer graph is a sequence of nodes in allocation order; a node's id is  *)
(* its position in the framework context.                                  *)
(***************************************************************************)
EXTENDS Integers, Sequences, FiniteSets, TLC

VARIABLES
    tf_installed,   \* whether tensorflow can be imported in this environment
    imported,       \* whether sktime.networks.mlstmfcn has been imported
    warnings,       \* warnings issued so far
    objects,        \* the MLSTMFCNNetwork objects constructed so far
    keras,          \* the framework context: every layer node allocated so far
    calls           \* the build_network calls made so far, with their outcome

vars == <<tf_installed, imported, warnings, objects, keras, calls>>

---------------------------------------------------------------------------
(* Bounds of the model *)

MaxLen == 4       \* longest filter_sizes / kernel_sizes sequence passed
MaxBuilds == 2    \* build_network calls in one run

---------------------------------------------------------------------------
(* Constructor signature, lines 31-40 *)

Default_random_state == 0
Default_dropout == 8
Default_attention == FALSE
Default_dilation_rate == 2
Default_filter_sizes == <<64, 128, 64>>
Default_kernel_sizes == <<5, 3, 1>>
Default_lstm_size == 5

(* Constructor docstring, lines 46-58 *)

Doc_kernel_sizes == <<8, 5, 3>>
Doc_filter_sizes == <<128, 256, 128>>
Doc_random_state == 0
Doc_lstm_size == 8
Doc_dropout == 8
Doc_attention == FALSE

---------------------------------------------------------------------------
(* Python helpers *)

\* mutant: the upper bound of the index check off by one
InRange_OffByOne(seq, i) == i >= 0 /\ i + 1 < Len(seq)

\* seq[i] of Python: defined for 0 <= i < len(seq), IndexError otherwise
InRange(seq, i) == i >= 0 /\ i < Len(seq)
Index(seq, i) == seq[i + 1]

\* the value a keyword parameter takes: the one passed, or the default
Arg(passed, default) == IF passed = {} THEN default ELSE CHOOSE v \in passed : TRUE

---------------------------------------------------------------------------
(* Module import, lines 6-9 *)

\* sktime.utils.validation._dependencies._check_dl_dependencies
check_dl_dependencies(severity, installed) ==
    IF installed THEN "ok"
    ELSE IF severity = "warning" THEN "warn"
    ELSE "raise"

ImportModule ==
    /\ ~imported
    /\ LET r == check_dl_dependencies("warning", tf_installed)
       IN /\ imported' = (r # "raise")
          /\ warnings' = IF r = "warn"
                         THEN Append(warnings, "tensorflow not installed")
                         ELSE warnings
    /\ UNCHANGED <<tf_installed, objects, keras, calls>>

---------------------------------------------------------------------------
(* MLSTMFCNNetwork.__init__, lines 31-68 *)

\* mutant: kernel_sizes and filter_sizes stored under each other's name
init_SizesSwapped(args) ==
    [random_state  |-> Arg(args.random_state, Default_random_state),
     kernel_sizes  |-> Arg(args.filter_sizes, Default_filter_sizes),
     filter_sizes  |-> Arg(args.kernel_sizes, Default_kernel_sizes),
     lstm_size     |-> Arg(args.lstm_size, Default_lstm_size),
     dropout       |-> Arg(args.dropout, Default_dropout),
     attention     |-> Arg(args.attention, Default_attention),
     dilation_rate |-> Arg(args.dilation_rate, Default_dilation_rate)]

init(args) ==
    [random_state  |-> Arg(args.random_state, Default_random_state),
     kernel_sizes  |-> Arg(args.kernel_sizes, Default_kernel_sizes),
     filter_sizes  |-> Arg(args.filter_sizes, Default_filter_sizes),
     lstm_size     |-> Arg(args.lstm_size, Default_lstm_size),
     dropout       |-> Arg(args.dropout, Default_dropout),
     attention     |-> Arg(args.attention, Default_attention),
     dilation_rate |-> Arg(args.dilation_rate, Default_dilation_rate)]

---------------------------------------------------------------------------
(* Layer primitives called by build_network.  Each gives the node that     *)
(* calling the layer on the input node(s) allocates: its kind, its         *)
(* arguments, the ids of the nodes it reads and its output shape (one      *)
(* unbatched sample).                                                      *)

Node(op, attrs, inputs, shape) ==
    [op |-> op, attrs |-> attrs, inputs |-> inputs, shape |-> shape]

\* keras conv_output_length: the time length a convolution leaves
conv_output_length(input_length, filter_size, padding, stride, dilation) ==
    LET dilated == filter_size + (filter_size - 1) * (dilation - 1)
        len == IF padding = "same" THEN input_length
               ELSE input_length - dilated + 1
    IN (len + stride - 1) \div stride

\* keras.layers.Input(shape=input_shape), line 91
Input(input_shape) ==
    Node("Input", [shape |-> input_shape], <<>>, input_shape)

\* keras.layers.Permute(dims)(t), line 93
Permute(dims, nodes, t) ==
    Node("Permute", [dims |-> dims], <<t>>,
         [i \in 1..Len(dims) |-> nodes[t].shape[dims[i]]])

\* keras.layers.LSTM(units)(t), line 99: the last output of the cell
LSTM(units, nodes, t) ==
    Node("LSTM", [units |-> units], <<t>>, <<units>>)

\* make_attention_lstm()(units)(t), lines 96-97: same interface as LSTM
AttentionLSTM(units, nodes, t) ==
    Node("AttentionLSTM", [units |-> units], <<t>>, <<units>>)

\* keras.layers.Dropout(rate)(t), line 101
Dropout(rate, nodes, t) ==
    Node("Dropout", [rate |-> rate], <<t>>, nodes[t].shape)

\* keras.layers.Conv1D(filters, kernel_size, dilation_rate=, padding=,
\* kernel_initializer=)(t), lines 103-109, 114-120, 125-131
Conv1D(filters, kernel_size, dilation_rate, padding, kernel_initializer, nodes, t) ==
    Node("Conv1D",
         [filters |-> filters, kernel_size |-> kernel_size,
          dilation_rate |-> dilation_rate, padding |-> padding,
          kernel_initializer |-> kernel_initializer],
         <<t>>,
         <<conv_output_length(nodes[t].shape[1], kernel_size, padding, 1,
                              dilation_rate),
           filters>>)

\* keras.layers.BatchNormalization()(t), lines 110, 121, 132
BatchNormalization(nodes, t) ==
    Node("BatchNormalization", [axis |-> -1], <<t>>, nodes[t].shape)

\* keras.layers.Activation(name)(t), lines 111, 122, 133
Activation(name, nodes, t) ==
    Node("Activation", [activation |-> name], <<t>>, nodes[t].shape)

\* sktime.networks.lstmfcn_layers.squeeze_excite_block(t), lines 112, 123:
\* pool each channel over time, reduce the pooled vector to width // 16,
\* restore it to the channel width, and scale the input's channels by it
squeeze_excite_block(nodes, t) ==
    LET filters == nodes[t].shape[2]
        squeeze == <<filters>>
        reduce  == <<filters \div 16>>
        restore == <<filters>>
        gated   == <<nodes[t].shape[1], restore[1]>>
    IN Node("squeeze_excite_block",
            [filters |-> squeeze[1], bottleneck |-> reduce[1]],
            <<t>>, gated)

\* keras.layers.GlobalAveragePooling1D()(t), line 135: mean over the time axis
GlobalAveragePooling1D(nodes, t) ==
    Node("GlobalAveragePooling1D", [axis |-> 1], <<t>>, <<nodes[t].shape[2]>>)

\* keras.layers.concatenate([a, b]), line 137: along the last axis
concatenate(nodes, a, b) ==
    Node("Concatenate", [axis |-> -1], <<a, b>>,
         <<nodes[a].shape[1] + nodes[b].shape[1]>>)

---------------------------------------------------------------------------
(* build_network, lines 70-139, statement by statement.  A frame holds the *)
(* context's nodes, the locals input_layer, x, y and output_layer (node     *)
(* ids, 0 while unbound) and the exception that ended the call ("none"     *)
(* while running).                                                         *)

Frame(nodes) ==
    [nodes |-> nodes, input_layer |-> 0, x |-> 0, y |-> 0, output_layer |-> 0,
     exc |-> "none"]

Raise(fr, e) == [fr EXCEPT !.exc = e]

\* local := layer(...): the framework rejects a node with an empty dimension
Assign(fr, local, node) ==
    IF \E i \in 1..Len(node.shape) : node.shape[i] < 1
    THEN Raise(fr, "ValueError")
    ELSE [fr EXCEPT !.nodes = Append(@, node), ![local] = Len(fr.nodes) + 1]

\* mutant: the function-level imports never fail
ImportKeras_NeverFails(installed, fr) == fr

\* lines 84-89: the function-level imports
ImportKeras(installed, fr) ==
    IF installed THEN fr ELSE Raise(fr, "ModuleNotFoundError")

\* line 91
StmtInput(input_shape, fr) ==
    IF fr.exc # "none" THEN fr
    ELSE Assign(fr, "input_layer", Input(input_shape))

\* mutant: the axes are left in their order
StmtPermute_Identity(fr) ==
    IF fr.exc # "none" THEN fr
    ELSE Assign(fr, "x", Permute(<<1, 2>>, fr.nodes, fr.input_layer))

\* line 93
StmtPermute(fr) ==
    IF fr.exc # "none" THEN fr
    ELSE Assign(fr, "x", Permute(<<2, 1>>, fr.nodes, fr.input_layer))

\* mutant: the attention cell reads the unpermuted input
StmtRecurrent_AttentionOnInput(self, fr) ==
    IF fr.exc # "none" THEN fr
    ELSE IF self.attention
         THEN Assign(fr, "x",
                     AttentionLSTM(self.lstm_size, fr.nodes, fr.input_layer))
         ELSE Assign(fr, "x", LSTM(self.lstm_size, fr.nodes, fr.x))

\* lines 95-99
StmtRecurrent(self, fr) ==
    IF fr.exc # "none" THEN fr
    ELSE IF self.attention
         THEN Assign(fr, "x", AttentionLSTM(self.lstm_size, fr.nodes, fr.x))
         ELSE Assign(fr, "x", LSTM(self.lstm_size, fr.nodes, fr.x))

\* line 101
StmtDropout(self, fr) ==
    IF fr.exc # "none" THEN fr
    ELSE Assign(fr, "x", Dropout(self.dropout, fr.nodes, fr.x))

\* mutant: the convolutions are not padded
StmtConv_ValidPadding(self, i, t, fr) ==
    IF fr.exc # "none" THEN fr
    ELSE IF ~InRange(self.filter_sizes, i) \/ ~InRange(self.kernel_sizes, i)
         THEN Raise(fr, "IndexError")
         ELSE Assign(fr, "y",
                     Conv1D(Index(self.filter_sizes, i),
                            Index(self.kernel_sizes, i),
                            self.dilation_rate, "valid", "he_uniform",
                            fr.nodes, t))

\* one convolution statement reading node t with the i-th sizes
StmtConv(self, i, t, fr) ==
    IF fr.exc # "none" THEN fr
    ELSE IF ~InRange(self.filter_sizes, i) \/ ~InRange(self.kernel_sizes, i)
         THEN Raise(fr, "IndexError")
         ELSE Assign(fr, "y",
                     Conv1D(Index(self.filter_sizes, i),
                            Index(self.kernel_sizes, i),
                            self.dilation_rate, "same", "he_uniform",
                            fr.nodes, t))

StmtBatchNorm(fr) ==
    IF fr.exc # "none" THEN fr
    ELSE Assign(fr, "y", BatchNormalization(fr.nodes, fr.y))

StmtRelu(fr) ==
    IF fr.exc # "none" THEN fr
    ELSE Assign(fr, "y", Activation("relu", fr.nodes, fr.y))

StmtSqueezeExcite(fr) ==
    IF fr.exc # "none" THEN fr
    ELSE Assign(fr, "y", squeeze_excite_block(fr.nodes, fr.y))

\* lines 103-112
Stage1(self, fr) ==
    StmtSqueezeExcite(StmtRelu(StmtBatchNorm(
        StmtConv(self, 0, fr.input_layer, fr))))

\* lines 114-123
Stage2(self, fr) ==
    StmtSqueezeExcite(StmtRelu(StmtBatchNorm(
        StmtConv(self, 1, fr.y, fr))))

\* mutant: the third stage is gated like the first two
Stage3_Gated(self, fr) ==
    StmtSqueezeExcite(StmtRelu(StmtBatchNorm(
        StmtConv(self, 2, fr.y, fr))))

\* mutant: the third stage built from the second entry of the sizes
Stage3_SecondSizes(self, fr) ==
    StmtRelu(StmtBatchNorm(StmtConv(self, 1, fr.y, fr)))

\* lines 125-133
Stage3(self, fr) ==
    StmtRelu(StmtBatchNorm(StmtConv(self, 2, fr.y, fr)))

\* line 135
StmtPool(fr) ==
    IF fr.exc # "none" THEN fr
    ELSE Assign(fr, "y", GlobalAveragePooling1D(fr.nodes, fr.y))

\* mutant: the two arms concatenated in the other order
StmtConcatenate_Swapped(fr) ==
    IF fr.exc # "none" THEN fr
    ELSE Assign(fr, "output_layer", concatenate(fr.nodes, fr.y, fr.x))

\* line 137
StmtConcatenate(fr) ==
    IF fr.exc # "none" THEN fr
    ELSE Assign(fr, "output_layer", concatenate(fr.nodes, fr.x, fr.y))

build_network(self, input_shape, installed, nodes) ==
    StmtConcatenate(StmtPool(
        Stage3(self, Stage2(self, Stage1(self,
            StmtDropout(self, StmtRecurrent(self, StmtPermute(
                StmtInput(input_shape, ImportKeras(installed, Frame(nodes)))))))))))

---------------------------------------------------------------------------
(* Inputs *)

\* an arithmetic sequence of n sizes, and the same sizes in reverse order
Sizes(first, step, n) == [i \in 1..n |-> first + step * (i - 1)]
Reversed(seq) == [i \in 1..Len(seq) |-> seq[Len(seq) + 1 - i]]

SizeArgs(first, step) ==
    {{}} \cup {{Sizes(first, step, n)} : n \in 1..MaxLen}
         \cup {{Reversed(Sizes(first, step, 3))}}

\* the keyword arguments a caller may pass to the constructor
FullArgs ==
    [random_state  : {{}, {7}},
     dropout       : {{}, {0}},
     attention     : {{}, {TRUE}},
     dilation_rate : {{}, {1}},
     filter_sizes  : SizeArgs(16, 16),
     kernel_sizes  : SizeArgs(3, 2),
     lstm_size     : {{}, {8}}]

\* the arguments of two networks that are compared with each other
PairArgs ==
    [random_state  : {{}},
     dropout       : {{}},
     attention     : {{}, {TRUE}, {FALSE}},
     dilation_rate : {{}},
     filter_sizes  : {{}, {Sizes(16, 16, 3)}},
     kernel_sizes  : {{}},
     lstm_size     : {{}, {8}}]

\* (timesteps, channels) of one unbatched sample
InputShapes == {<<1, 1>>, <<10, 1>>, <<128, 3>>}

---------------------------------------------------------------------------
(* State machine *)

Init ==
    /\ tf_installed \in BOOLEAN
    /\ imported = FALSE
    /\ warnings = <<>>
    /\ objects = <<>>
    /\ keras = <<>>
    /\ calls = <<>>

\* net = MLSTMFCNNetwork(**args): the class exists once the module is imported
Construct(limit, argspace) ==
    /\ imported
    /\ Len(objects) < limit
    /\ \E args \in argspace :
          objects' = Append(objects, [args |-> args, self |-> init(args)])
    /\ UNCHANGED <<tf_installed, imported, warnings, keras, calls>>

\* objects[n].build_network(input_shape)
BuildNetwork ==
    /\ Len(calls) < MaxBuilds
    /\ \E n \in 1..Len(objects), input_shape \in InputShapes :
          \E fr \in {build_network(objects[n].self, input_shape, tf_installed,
                                  keras)} :
             /\ keras' = fr.nodes
             /\ calls' = Append(calls,
                    [net |-> n, input_shape |-> input_shape,
                     status |-> IF fr.exc = "none" THEN "ok" ELSE fr.exc,
                     first |-> Len(keras) + 1, last |-> Len(fr.nodes),
                     input_layer |-> IF fr.exc = "none" THEN fr.input_layer ELSE 0,
                     output_layer |-> IF fr.exc = "none" THEN fr.output_layer ELSE 0])
    /\ UNCHANGED <<tf_installed, imported, warnings, objects>>

Next ==
    \/ ImportModule
    \/ Construct(1, FullArgs)
    \/ BuildNetwork

Spec == Init /\ [][Next]_vars

NextPair ==
    \/ ImportModule
    \/ Construct(2, PairArgs)
    \/ BuildNetwork

SpecPair == Init /\ [][NextPair]_vars

---------------------------------------------------------------------------
(* Claims *)

CallIds == 1..Len(calls)
SelfOf(c) == objects[c.net].self
ArgsOf(c) == objects[c.net].args
NoArgs ==
    [random_state |-> {}, dropout |-> {}, attention |-> {},
     dilation_rate |-> {}, filter_sizes |-> {}, kernel_sizes |-> {},
     lstm_size |-> {}]
ThreeSizes(self) == Len(self.filter_sizes) = 3 /\ Len(self.kernel_sizes) = 3

C2_OnlyLengthThree ==
    \A k \in CallIds :
        LET c == calls[k]
            self == SelfOf(c)
        IN tf_installed =>
              /\ ThreeSizes(self) => c.status = "ok"
              /\ ~ThreeSizes(self) => c.status = "IndexError"

\* C2 amended: with the framework installed, build_network succeeds when
\* filter_sizes and kernel_sizes both have at least 3 entries (only the first
\* three being read), and fails with an IndexError, after the graph's first
\* nodes are allocated and before it returns, when one of them has fewer.
C2_AtLeastThree ==
    \A k \in CallIds :
        LET c == calls[k]
            self == SelfOf(c)
            long == Len(self.filter_sizes) >= 3 /\ Len(self.kernel_sizes) >= 3
            convs == {i \in c.first..c.last : keras[i].op = "Conv1D"}
        IN tf_installed =>
              /\ long =>
                    /\ c.status = "ok"
                    /\ {<<keras[i].attrs.filters, keras[i].attrs.kernel_size>> :
                            i \in convs}
                         = {<<Index(self.filter_sizes, j), Index(self.kernel_sizes, j)>> :
                                j \in 0..2}
              /\ ~long =>
                    /\ c.status = "IndexError"
                    /\ c.last >= c.first
                    /\ c.output_layer = 0

C2_Witness ==
    \E k \in CallIds :
        /\ Len(SelfOf(calls[k]).filter_sizes) > 3
        /\ Len(SelfOf(calls[k]).kernel_sizes) > 3
        /\ calls[k].status = "ok"

\* C6: a network constructed with no arguments has the defaults the
\* constructor's docstring documents.
C6_DocstringDefaults ==
    \A n \in 1..Len(objects) :
        objects[n].args = NoArgs =>
            /\ objects[n].self.kernel_sizes = Doc_kernel_sizes
            /\ objects[n].self.filter_sizes = Doc_filter_sizes
            /\ objects[n].self.lstm_size = Doc_lstm_size
            /\ objects[n].self.random_state = Doc_random_state
            /\ objects[n].self.dropout = Doc_dropout
            /\ objects[n].self.attention = Doc_attention

\* C4 as stated: without the framework, importing the module issues a
\* warning and completes, and no build_network call fails for the missing
\* framework.
C4_NoErrorAtBuild ==
    ~tf_installed =>
        /\ imported <=> warnings # <<>>
        /\ \A k \in CallIds : calls[k].status # "ModuleNotFoundError"

\* C4 amended: without the framework, importing the module issues one
\* warning and completes, a network can be constructed, and every
\* build_network call fails with ModuleNotFoundError before it allocates a
\* node; with the framework no warning is issued.
C4_WarningThenImportError ==
    /\ ~tf_installed =>
          /\ imported <=> warnings = <<"tensorflow not installed">>
          /\ \A k \in CallIds :
                /\ calls[k].status = "ModuleNotFoundError"
                /\ calls[k].last < calls[k].first
                /\ calls[k].input_layer = 0 /\ calls[k].output_layer = 0
          /\ keras = <<>>
    /\ tf_installed => warnings = <<>>

C4_Witness ==
    /\ ~tf_installed
    /\ imported
    /\ warnings # <<>>
    /\ Len(objects) = 1
    /\ Len(calls) = MaxBuilds
    /\ \A k \in CallIds : calls[k].status = "ModuleNotFoundError"

\* what the constructor is to store for one keyword parameter
Stored(passed, default, attribute) ==
    IF passed = {} THEN attribute = default ELSE passed = {attribute}

StoredAsPassed(o) ==
    /\ Stored(o.args.random_state, Default_random_state, o.self.random_state)
    /\ Stored(o.args.dropout, Default_dropout, o.self.dropout)
    /\ Stored(o.args.attention, Default_attention, o.self.attention)
    /\ Stored(o.args.dilation_rate, Default_dilation_rate, o.self.dilation_rate)
    /\ Stored(o.args.filter_sizes, Default_filter_sizes, o.self.filter_sizes)
    /\ Stored(o.args.kernel_sizes, Default_kernel_sizes, o.self.kernel_sizes)
    /\ Stored(o.args.lstm_size, Default_lstm_size, o.self.lstm_size)
    /\ DOMAIN o.self = DOMAIN o.args

\* C5: in every step, each network's seven attributes hold the values passed
\* to its constructor (the signature's default for an omitted one), no
\* existing network is changed, and a build_network call changes nothing but
\* the framework context, to which it only appends nodes, and the record of
\* calls, to which it appends its own outcome.
C5_HyperparametersFixed ==
    [][/\ \A n \in 1..Len(objects') : StoredAsPassed(objects'[n])
       /\ \A n \in 1..Len(objects) :
             n <= Len(objects') /\ objects'[n] = objects[n]
       /\ Len(calls') > Len(calls) =>
             /\ objects' = objects
             /\ imported' = imported
             /\ warnings' = warnings
             /\ tf_installed' = tf_installed
             /\ Len(keras') >= Len(keras)
             /\ SubSeq(keras', 1, Len(keras)) = keras
             /\ SubSeq(calls', 1, Len(calls)) = calls
             /\ Len(calls') = Len(calls) + 1
      ]_vars

C5_Witness ==
    /\ Len(objects) = 1
    /\ \A f \in DOMAIN objects[1].args : objects[1].args[f] # {}
    /\ StoredAsPassed(objects[1])
    /\ Len(calls) = MaxBuilds
    /\ \E j, k \in CallIds :
          /\ calls[j].input_shape # calls[k].input_shape
          /\ calls[j].status = "ok"
          /\ calls[k].status = "ok"

\* the nodes a call allocated, and those among them that read node i
NodesOf(c) == c.first..c.last
Readers(c, i) ==
    {j \in NodesOf(c) : \E p \in DOMAIN keras[j].inputs : keras[j].inputs[p] = i}
OfKind(c, op) == {i \in NodesOf(c) : keras[i].op = op}
Built(c) == c.status \in {"ok", "IndexError"}

\* C7: in every graph built, the first four nodes are the input of shape
\* (T, C), its permutation of shape (C, T), the recurrent cell of width
\* lstm_size reading the permutation (AttentionLSTM iff attention) and the
\* dropout of rate dropout reading the cell; the permutation and the cell
\* have no other reader, there is no other dropout node, and the dropout's
\* shape is (lstm_size,), whatever T, C and dropout are.
C7_RecurrentArm ==
    \A k \in CallIds :
        LET c == calls[k]
            self == SelfOf(c)
            f == c.first
            T == c.input_shape[1]
            C == c.input_shape[2]
        IN Built(c) =>
              /\ c.last >= f + 3
              /\ keras[f] = Node("Input", [shape |-> <<T, C>>], <<>>, <<T, C>>)
              /\ keras[f + 1].op = "Permute"
              /\ keras[f + 1].inputs = <<f>>
              /\ keras[f + 1].shape = <<C, T>>
              /\ keras[f + 2].op =
                    (IF self.attention THEN "AttentionLSTM" ELSE "LSTM")
              /\ keras[f + 2].attrs = [units |-> self.lstm_size]
              /\ keras[f + 2].inputs = <<f + 1>>
              /\ keras[f + 2].shape = <<self.lstm_size>>
              /\ keras[f + 3] =
                    Node("Dropout", [rate |-> self.dropout], <<f + 2>>,
                         <<self.lstm_size>>)
              /\ Readers(c, f + 1) = {f + 2}
              /\ Readers(c, f + 2) = {f + 3}
              /\ OfKind(c, "Dropout") = {f + 3}
              /\ c.status = "ok" =>
                    /\ Readers(c, f + 3) = {c.output_layer}
                    /\ keras[c.output_layer].inputs[1] = f + 3

C7_Witness ==
    \E k \in CallIds :
        /\ calls[k].status = "ok"
        /\ SelfOf(calls[k]).dropout = 0
        /\ SelfOf(calls[k]).attention
        /\ calls[k].input_shape = <<10, 1>>
        /\ keras[calls[k].first + 1].shape = <<1, 10>>
        /\ keras[calls[k].first + 3].op = "Dropout"
        /\ keras[calls[k].first + 3].shape = <<SelfOf(calls[k]).lstm_size>>

\* the convolution of stage i (0-based) as the source writes it
StageConv(self, i, t, T) ==
    Node("Conv1D",
         [filters |-> Index(self.filter_sizes, i),
          kernel_size |-> Index(self.kernel_sizes, i),
          dilation_rate |-> self.dilation_rate, padding |-> "same",
          kernel_initializer |-> "he_uniform"],
         <<t>>, <<T, Index(self.filter_sizes, i)>>)

RECURSIVE StageOf(_)
StageOf(i) ==
    IF keras[i].op = "Conv1D" THEN i ELSE StageOf(keras[i].inputs[1])

ArmKinds == {"Conv1D", "BatchNormalization", "Activation", "squeeze_excite_block"}

\* C9: every convolution, batch normalization, ReLU and gating node built has
\* shape (T, n), T the input's time length and n the filter count of the
\* convolution its stage starts with, whatever the kernel sizes and the
\* dilation rate; a returned graph's pooled node has shape (filter_sizes[2],);
\* with dilation_rate = 1 and kernel_sizes = (5, 3, 1) a build on input_shape
\* (10, 1) returns such a graph.
C9_TimeLengthPreserved ==
    \A k \in CallIds :
        LET c == calls[k]
            self == SelfOf(c)
            T == c.input_shape[1]
        IN /\ c.status # "ValueError"
           /\ \A i \in NodesOf(c) :
                 keras[i].op \in ArmKinds =>
                     keras[i].shape = <<T, keras[StageOf(i)].attrs.filters>>
           /\ c.status = "ok" =>
                 \A i \in OfKind(c, "GlobalAveragePooling1D") :
                     keras[i].shape = <<Index(self.filter_sizes, 2)>>
           /\ (/\ tf_installed
               /\ self.dilation_rate = 1
               /\ self.kernel_sizes = <<5, 3, 1>>
               /\ Len(self.filter_sizes) = 3
               /\ c.input_shape = <<10, 1>>) => c.status = "ok"

C9_Witness ==
    \E j, k \in CallIds :
        /\ calls[j].status = "ok"
        /\ calls[k].status = "ok"
        /\ SelfOf(calls[j]).dilation_rate = 1
        /\ SelfOf(calls[j]).kernel_sizes = <<5, 3, 1>>
        /\ calls[j].input_shape = <<10, 1>>
        /\ calls[k].input_shape = <<1, 1>>
        /\ keras[calls[k].last - 1].shape =
               <<Index(SelfOf(calls[k]).filter_sizes, 2)>>

\* the nodes of call c reached from the set S along reads: towards the
\* readers (Downstream), towards the nodes read (Upstream)
RECURSIVE Downstream(_, _)
Downstream(c, S) ==
    LET more == S \cup {j \in NodesOf(c) :
                           \E p \in DOMAIN keras[j].inputs : keras[j].inputs[p] \in S}
    IN IF more = S THEN S ELSE Downstream(c, more)

RECURSIVE Upstream(_, _)
Upstream(c, S) ==
    LET more == S \cup UNION {{keras[j].inputs[p] : p \in DOMAIN keras[j].inputs} : j \in S}
    IN IF more = S THEN S ELSE Upstream(c, more)

\* C10: every successful build_network call returns the pair (input node,
\* output node): the input node is the call's only node without inputs, has
\* shape input_shape and is read by the permutation and by the first
\* convolution; the output node is the call's only node without a reader and
\* is the concatenation of the dropout node and the pooled node, in that
\* order, its width the sum of theirs; every node reads only earlier nodes
\* of the same call, and every node of the call is reached from the input
\* node and reaches the output node.
C10_InputOutputGraph ==
    \A k \in CallIds :
        LET c == calls[k]
            in == c.input_layer
            out == c.output_layer
        IN c.status = "ok" =>
              /\ in \in NodesOf(c) /\ out \in NodesOf(c)
              /\ keras[in].op = "Input"
              /\ keras[in].shape = c.input_shape
              /\ {i \in NodesOf(c) : keras[i].inputs = <<>>} = {in}
              /\ {keras[i].op : i \in Readers(c, in)} = {"Permute", "Conv1D"}
              /\ Cardinality(Readers(c, in)) = 2
              /\ {i \in NodesOf(c) : Readers(c, i) = {}} = {out}
              /\ keras[out].op = "Concatenate"
              /\ Len(keras[out].inputs) = 2
              /\ keras[keras[out].inputs[1]].op = "Dropout"
              /\ keras[keras[out].inputs[2]].op = "GlobalAveragePooling1D"
              /\ keras[out].shape =
                    <<keras[keras[out].inputs[1]].shape[1]
                        + keras[keras[out].inputs[2]].shape[1]>>
              /\ \A i \in NodesOf(c) :
                    \A p \in DOMAIN keras[i].inputs :
                        keras[i].inputs[p] \in c.first..(i - 1)
              /\ Downstream(c, {in}) = NodesOf(c)
              /\ Upstream(c, {out}) = NodesOf(c)

C10_Witness ==
    \E k \in CallIds :
        LET c == calls[k]
        IN /\ c.status = "ok"
           /\ c.first > 1
           /\ c.input_layer = c.first
           /\ c.output_layer = c.last
           /\ keras[c.output_layer].inputs = <<c.first + 3, c.last - 1>>

\* node i of call c with the ids it reads counted from the call's first node
Relative(c, i) ==
    [keras[c.first + i] EXCEPT
        !.inputs = [p \in DOMAIN @ |-> @[p] - c.first]]

OnlyAttentionDiffers(a, b) ==
    /\ a.attention # b.attention
    /\ [a EXCEPT !.attention = b.attention] = b

\* C3: two successful build_network calls on the same input_shape by
\* networks whose hyperparameters differ only in attention allocate the same
\* number of nodes, equal position by position in kind, arguments, wiring
\* and shape, except for the kind of the third node, which is LSTM without
\* and AttentionLSTM with attention; the returned nodes are at the same
\* positions and the output nodes have the same shape.
C3_AttentionOnlySwapsCell ==
    \A j, k \in CallIds :
        LET a == calls[j]
            b == calls[k]
        IN (/\ a.status = "ok" /\ b.status = "ok"
            /\ a.input_shape = b.input_shape
            /\ OnlyAttentionDiffers(SelfOf(a), SelfOf(b))) =>
              /\ a.last - a.first = b.last - b.first
              /\ \A i \in 0..(a.last - a.first) :
                    IF i = 2
                    THEN /\ [Relative(a, i) EXCEPT !.op = "cell"]
                              = [Relative(b, i) EXCEPT !.op = "cell"]
                         /\ Relative(a, i).op =
                               (IF SelfOf(a).attention THEN "AttentionLSTM" ELSE "LSTM")
                         /\ Relative(b, i).op =
                               (IF SelfOf(b).attention THEN "AttentionLSTM" ELSE "LSTM")
                         /\ Relative(a, i).attrs.units = SelfOf(a).lstm_size
                    ELSE Relative(a, i) = Relative(b, i)
              /\ a.input_layer - a.first = b.input_layer - b.first
              /\ a.output_layer - a.first = b.output_layer - b.first
              /\ keras[a.output_layer].shape = keras[b.output_layer].shape

C3_Witness ==
    \E j, k \in CallIds :
        /\ calls[j].status = "ok" /\ calls[k].status = "ok"
        /\ calls[j].input_shape = calls[k].input_shape
        /\ OnlyAttentionDiffers(SelfOf(calls[j]), SelfOf(calls[k]))
        /\ keras[calls[j].first + 2].op = "LSTM"
        /\ keras[calls[k].first + 2].op = "AttentionLSTM"

=============================================================================
